---- MODULE Spec2Model ----
(***************************************************************************)
(* Festival Emoji Analytics (src/app.py): a Streamlit script that reads an *)
(* uploaded Excel sheet, fills in the columns the dashboard needs          *)
(* (process_data), filters the table by the sidebar selection and derives  *)
(* the KPI row and the charts.                                             *)
(*                                                                         *)
(* A table (pandas DataFrame) is [cols, rows]: the set of column labels    *)
(* and the sequence of rows, each row a function from the labels to the    *)
(* cells.  Times are counted in hours.  Emoji glyphs are written by code   *)
(* point ("U+1F600"); SortOrder lists every label in Python's string       *)
(* order.                                                                  *)
(***************************************************************************)
EXTENDS Integers, Sequences, FiniteSets, TLC

VARIABLES uploaded_file, df, load_error, now, sel_festival, sel_sentiment,
          top_n, view

vars == <<uploaded_file, df, load_error, now, sel_festival, sel_sentiment,
          top_n, view>>

----------------------------------------------------------------------------
(* Program constants *)

IdLow == 1000000
IdHigh == 9999999
WindowDays == 30
HourHigh == 23
HoursPerDay == 24
TopNMin == 5
TopNMax == 50
TopNDefault == 10
BarsFactor == 3

authors == <<"Ananya_Rao", "Rohan_M", "Priya_Singh", "Arjun_K",
             "Vikram_P", "Meera_N", "Suresh_Eats">>

NoTextAvailable == "No text available"
EmojiPlaceholder == "U+1F642"
All == "All"
NotAvailable == "N/A"

CanonicalCols == {"Tweet_ID", "Author_ID", "Date", "Tweet_Text", "Emoji"}

(* Missing cells as pandas reads them: NaN in a text column, NaN in a      *)
(* numeric column, NaT in a datetime column.                               *)
NaN == "NaN"
MissingId == -1
NaT == [kind |-> "NaT", v |-> 0]

Ts(h) == [kind |-> "ts", v |-> h]

IsNull(c, v) ==
    CASE c = "Tweet_ID" -> v = MissingId
      [] c = "Date"     -> v.kind = "NaT"
      [] OTHER          -> v = NaN

(* Python's order of the labels the script sorts or groups by. *)
SortOrder == <<"All", "Anger", "Diwali", "Holi", "Joy", "Negative", "Positive",
               "U+1F389", "U+1F525", "U+1F600", "U+1F602", "U+1F642",
               "U+1FA94">>

Ord(v) == CHOOSE i \in DOMAIN SortOrder : SortOrder[i] = v

----------------------------------------------------------------------------
(* Bounds of the model *)

MaxRows == 2
FirstClock == 473352

----------------------------------------------------------------------------
(* Tables *)

EmptyFrame == [cols |-> {}, rows |-> <<>>]

NRows(t) == Len(t.rows)

(* df[c] = vals : the column is added, or overwritten when it exists. *)
SetColumn(t, c, vals) ==
    [cols |-> t.cols \cup {c},
     rows |-> [i \in 1..NRows(t) |-> (c :> vals[i]) @@ t.rows[i]]]

Column(t, c) == [i \in 1..NRows(t) |-> t.rows[i][c]]

(* Mutant of RandInt: the upper end is drawn too. *)
RandIntInclusive(lo, hi) == lo..hi

(* np.random.randint(lo, hi): hi is excluded. *)
RandInt(lo, hi) == lo..(hi - 1)

(* A date cell of the sheet holds a datetime, nothing, or text; a text     *)
(* cell is written by the time it reads as, BadText when it reads as none. *)
BadText == [kind |-> "text", v |-> -1]
DateText(h) == [kind |-> "text", v |-> h]

Parses(cell) == cell # BadText

(* pd.to_datetime on one cell (it raises on a cell for which Parses is     *)
(* false; the caller tests that first).                                    *)
to_datetime(cell) ==
    CASE cell.kind = "ts"   -> cell
      [] cell.kind = "NaT"  -> NaT
      [] cell.kind = "text" -> IF Parses(cell) THEN Ts(cell.v) ELSE NaT

(* Mutant of to_datetime_raises: errors='coerce', nothing raises. *)
to_datetime_coerces(t) == FALSE

(* Whether pd.to_datetime(df['Date']) raises. *)
to_datetime_raises(t) == \E i \in 1..NRows(t) : ~Parses(t.rows[i]["Date"])

(* The column-fill steps of process_data on the table read from the file.  *)
(* rng holds the draws of numpy's generator, one per row, and clock is     *)
(* what datetime.now() returns.                                            *)
(* Mutant of FillTweetId: the column test is dropped, the ids are drawn     *)
(* again whenever the generator has draws.                                 *)
FillTweetIdAgain(t, rng) ==
    IF rng.ids # <<>> THEN SetColumn(t, "Tweet_ID", rng.ids) ELSE t

FillTweetId(t, rng) ==
    IF "Tweet_ID" \notin t.cols THEN SetColumn(t, "Tweet_ID", rng.ids) ELSE t

FillAuthor(t, rng) ==
    IF "Author_ID" \notin t.cols
    THEN SetColumn(t, "Author_ID", [i \in 1..NRows(t) |-> authors[rng.authors[i]]])
    ELSE t

FillDate(t, rng, clock) ==
    IF "Date" \notin t.cols
    THEN LET start_date == clock - WindowDays * HoursPerDay
         IN  SetColumn(t, "Date",
                 [i \in 1..NRows(t) |->
                     Ts(start_date + rng.days[i] * HoursPerDay + rng.hours[i])])
    ELSE SetColumn(t, "Date", [i \in 1..NRows(t) |-> to_datetime(t.rows[i]["Date"])])

FillText(t) ==
    IF "Tweet" \in t.cols /\ "Tweet_Text" \notin t.cols
    THEN SetColumn(t, "Tweet_Text", Column(t, "Tweet"))
    ELSE IF "Tweet_Text" \notin t.cols
         THEN SetColumn(t, "Tweet_Text", [i \in 1..NRows(t) |-> NoTextAvailable])
         ELSE t

(* Mutant of FillEmoji: another glyph is written. *)
FillEmojiGrinning(t) ==
    IF "Emoji" \notin t.cols
    THEN SetColumn(t, "Emoji", [i \in 1..NRows(t) |-> "U+1F600"])
    ELSE t

FillEmoji(t) ==
    IF "Emoji" \notin t.cols
    THEN SetColumn(t, "Emoji", [i \in 1..NRows(t) |-> EmojiPlaceholder])
    ELSE t

(* Lines 59-94 on a table: the filled table, or the except branch. *)
FillColumns(t, rng, clock) ==
    LET s2 == FillAuthor(FillTweetId(t, rng), rng)
    IN  IF "Date" \in s2.cols /\ to_datetime_raises(s2)
        THEN [ok |-> FALSE, df |-> EmptyFrame]
        ELSE [ok |-> TRUE,
              df |-> FillEmoji(FillText(FillDate(s2, rng, clock)))]

(* process_data: pd.read_excel raises on a file it cannot read. *)
process_data(file, rng, clock) ==
    IF ~file.readable
    THEN [ok |-> FALSE, df |-> EmptyFrame]
    ELSE FillColumns(file.sheet, rng, clock)

(* DataFrame.empty *)
IsEmpty(t) == t.cols = {} \/ NRows(t) = 0

----------------------------------------------------------------------------
(* pandas on one column: vals is the sequence of its cells *)

Vals(rows, c) == [i \in 1..Len(rows) |-> rows[i][c]]

(* The distinct values of a text column, NaN dropped. *)
Distinct(vals) == {vals[i] : i \in 1..Len(vals)} \ {NaN}

CountOf(vals, v) == Cardinality({i \in 1..Len(vals) : vals[i] = v})

FirstAt(vals, v) ==
    CHOOSE i \in 1..Len(vals) : vals[i] = v /\ \A j \in 1..(i - 1) : vals[j] # v

(* The elements of S in ascending order of key (key is one-to-one on S). *)
SortedBy(S, key) ==
    [p \in 1..Cardinality(S) |->
        CHOOSE v \in S : Cardinality({w \in S : key[w] < key[v]}) = p - 1]

(* Series.unique() after dropna(): first-seen order. *)
unique(vals) ==
    LET D == Distinct(vals)
    IN  SortedBy(D, [v \in D |-> FirstAt(vals, v)])

(* sorted(...) of a list of labels *)
sorted(S) == SortedBy(S, [v \in S |-> Ord(v)])

(* Series.value_counts(): descending counts; equal counts keep the order   *)
(* in which the values are first seen (the sort is stable on the short     *)
(* columns modelled here).                                                 *)
value_counts(vals) ==
    LET D == Distinct(vals)
        n == Len(vals)
        key == [v \in D |-> (n - CountOf(vals, v)) * (n + 1) + FirstAt(vals, v)]
        order == SortedBy(D, key)
    IN  [p \in 1..Cardinality(D) |->
            [value |-> order[p], count |-> CountOf(vals, order[p])]]

(* Mutant of nlargest: one entry too many. *)
nlargest_plus_one(vc, n) == SubSeq(vc, 1, IF n + 1 < Len(vc) THEN n + 1 ELSE Len(vc))

(* Series.nlargest(n) of a value_counts() result: its first n entries. *)
nlargest(vc, n) == SubSeq(vc, 1, IF n < Len(vc) THEN n ELSE Len(vc))

(* Mutant of mode: the most frequent values in first-seen order. *)
mode_first_seen(vals) ==
    LET D == Distinct(vals)
        M == {v \in D : \A w \in D : CountOf(vals, w) <= CountOf(vals, v)}
    IN  SortedBy(M, [v \in M |-> FirstAt(vals, v)])

(* Series.mode(): the most frequent values, NaN dropped, sorted. *)
mode(vals) ==
    LET D == Distinct(vals)
        M == {v \in D : \A w \in D : CountOf(vals, w) <= CountOf(vals, v)}
    IN  sorted(M)

(* Series.nunique() *)
nunique(vals) == Cardinality(Distinct(vals))

(* groupby(keys).size(): one entry per key, rows with a missing key        *)
(* dropped; keys is the sequence of the rows' keys and valid the rows      *)
(* whose key has no missing part.                                          *)
group_sizes(keys, valid) ==
    {[key |-> k, Count |-> Cardinality({i \in valid : keys[i] = k})] :
        k \in {keys[i] : i \in valid}}

(* Series.dt.date of a datetime cell *)
date_of(cell) == IF cell.kind = "NaT" THEN NaT ELSE Ts(cell.v \div HoursPerDay)

Indices(rows) == 1..Len(rows)

----------------------------------------------------------------------------
(* The sidebar and the filter (lines 112-134) *)

(* Mutant of Options: both selectors list the values of Festival. *)
OptionsOfFestival(frame, c) ==
    <<All>> \o (IF c \in frame.cols /\ "Festival" \in frame.cols
                THEN sorted(Distinct(Vals(frame.rows, "Festival")))
                ELSE <<>>)

Options(frame, c) ==
    <<All>> \o (IF c \in frame.cols THEN sorted(Distinct(Vals(frame.rows, c)))
                ELSE <<>>)

(* Mutant of KeepEqual: the comparison inverted. *)
KeepUnequal(rows, c, v) == SelectSeq(rows, LAMBDA r : r[c] # v)

KeepEqual(rows, c, v) == SelectSeq(rows, LAMBDA r : r[c] = v)

ApplyFilters(frame, festival, sentiment) ==
    LET byFestival ==
            IF festival # All /\ "Festival" \in frame.cols
            THEN KeepEqual(frame.rows, "Festival", festival)
            ELSE frame.rows
    IN  IF sentiment # All /\ "Sentiment" \in frame.cols
        THEN KeepEqual(byFestival, "Sentiment", sentiment)
        ELSE byFestival

----------------------------------------------------------------------------
(* The KPI row (lines 142-158) *)

TopOf(cols, rows, c) ==
    IF c \in cols /\ Len(mode(Vals(rows, c))) > 0
    THEN mode(Vals(rows, c))[1]
    ELSE NotAvailable

UniqueEmojiCount(cols, rows) ==
    IF "Emoji" \in cols THEN nunique(Vals(rows, "Emoji")) ELSE 0

----------------------------------------------------------------------------
(* The charts.  Each has a guard: the chart is computed and handed to      *)
(* plotly when the guard holds, and an st.info / st.warning line is shown  *)
(* in its place when it does not.                                          *)

Charts == {"ranking", "sentiment_split", "treemap", "daily", "bars", "violin",
           "scatter", "radar", "area", "gauge", "sankey", "cooccurrence",
           "bubble", "calendar"}

(* Mutant of Requires: the scatter asks for Sentiment too. *)
RequiresSentimentForScatter ==
    [ranking         |-> {"Emoji"},
     sentiment_split |-> {"Sentiment"},
     treemap         |-> {"Emotion", "Emoji"},
     daily           |-> {"Date"},
     bars            |-> {"Emoji", "Sentiment"},
     violin          |-> {"Tweet_Text", "Sentiment"},
     scatter         |-> {"Date", "Emoji", "Sentiment"},
     radar           |-> {"Tweet_Text", "Sentiment"},
     area            |-> {"Date", "Sentiment"},
     gauge           |-> {"Sentiment"},
     sankey          |-> {"Festival", "Sentiment", "Emoji"},
     cooccurrence    |-> {"Emoji"},
     bubble          |-> {"Date", "Emoji"},
     calendar        |-> {"Date"}]

(* The columns each chart's if-statement asks for. *)
Requires ==
    [ranking         |-> {"Emoji"},
     sentiment_split |-> {"Sentiment"},
     treemap         |-> {"Emotion", "Emoji"},
     daily           |-> {"Date"},
     bars            |-> {"Emoji", "Sentiment"},
     violin          |-> {"Tweet_Text", "Sentiment"},
     scatter         |-> {"Date", "Emoji"},
     radar           |-> {"Tweet_Text", "Sentiment"},
     area            |-> {"Date", "Sentiment"},
     gauge           |-> {"Sentiment"},
     sankey          |-> {"Festival", "Sentiment", "Emoji"},
     cooccurrence    |-> {"Emoji"},
     bubble          |-> {"Date", "Emoji"},
     calendar        |-> {"Date"}]

(* Mutant of GaugeGuard: the row test is dropped. *)
GaugeGuardColumnOnly(cols, rows) == "Sentiment" \in cols

(* Line 428: the gauge also asks for a row. *)
GaugeGuard(cols, rows) == "Sentiment" \in cols /\ Len(rows) > 0

(* Lines 168-174 *)
EmojiCounts(rows, n) == nlargest(value_counts(Vals(rows, "Emoji")), n)

(* Lines 197-199: the pie counts the rows of each Sentiment. *)
SentimentSplit(rows) ==
    group_sizes(Vals(rows, "Sentiment"),
                {i \in Indices(rows) : rows[i]["Sentiment"] # NaN})

(* Lines 218-223 *)
TreeDf(rows) ==
    group_sizes([i \in Indices(rows) |-> <<rows[i]["Emotion"], rows[i]["Emoji"]>>],
                {i \in Indices(rows) :
                    rows[i]["Emotion"] # NaN /\ rows[i]["Emoji"] # NaN})

(* Lines 242-247 *)
Daily(rows) ==
    group_sizes([i \in Indices(rows) |-> date_of(rows[i]["Date"])],
                {i \in Indices(rows) : rows[i]["Date"].kind # "NaT"})

(* Lines 335-342: one point per row, coloured by Sentiment when there is one. *)
ScatDf(cols, rows) ==
    [i \in Indices(rows) |->
        [Date_only |-> date_of(rows[i]["Date"]),
         Emoji     |-> rows[i]["Emoji"],
         color     |-> IF "Sentiment" \in cols THEN rows[i]["Sentiment"] ELSE "None"]]

(* Lines 429-431: positive_rate = (positive_count / total) * 100, kept as  *)
(* the fraction num / den; the division faults when total is 0.            *)
Gauge(rows) ==
    LET total == Len(rows)
        positive_count ==
            Cardinality({i \in Indices(rows) : rows[i]["Sentiment"] = "Positive"})
    IN  [total |-> total, positive_count |-> positive_count,
         num |-> positive_count * 100, den |-> total,
         fault |-> total = 0]

NoGauge == [total |-> 0, positive_count |-> 0, num |-> 0, den |-> 0, fault |-> FALSE]

(* Lines 478-525 *)
Sankey(rows, n) ==
    LET top_emojis_global ==
            LET vc == nlargest(value_counts(Vals(rows, "Emoji")), n)
            IN  [p \in 1..Len(vc) |-> vc[p].value]
        top == {top_emojis_global[p] : p \in 1..Len(top_emojis_global)}
        sankey_df == SelectSeq(rows, LAMBDA r : r["Emoji"] \in top)
        festivals == unique(Vals(sankey_df, "Festival"))
        sentiments == unique(Vals(sankey_df, "Sentiment"))
        labels == festivals \o sentiments \o top_emojis_global
        (* a dict comprehension: a label listed twice keeps its last index *)
        label_to_idx(lab) ==
            CHOOSE i \in 1..Len(labels) :
                labels[i] = lab /\ \A j \in (i + 1)..Len(labels) : labels[j] # lab
        fs == group_sizes(
                  [i \in Indices(sankey_df) |->
                      <<sankey_df[i]["Festival"], sankey_df[i]["Sentiment"]>>],
                  {i \in Indices(sankey_df) :
                      sankey_df[i]["Festival"] # NaN /\ sankey_df[i]["Sentiment"] # NaN})
        se == group_sizes(
                  [i \in Indices(sankey_df) |->
                      <<sankey_df[i]["Sentiment"], sankey_df[i]["Emoji"]>>],
                  {i \in Indices(sankey_df) : sankey_df[i]["Sentiment"] # NaN})
        link(g) == [source |-> label_to_idx(g.key[1]),
                    target |-> label_to_idx(g.key[2]),
                    value  |-> g.Count,
                    from   |-> g.key[1],
                    to     |-> g.key[2]]
    IN  [labels |-> labels,
         fs_links |-> {link(g) : g \in fs},
         se_links |-> {link(g) : g \in se}]

NoSankey == [labels |-> <<>>, fs_links |-> {}, se_links |-> {}]

(* Line 527 *)
SankeyDrawn(sk) == sk.fs_links # {} \/ sk.se_links # {}

RECURSIVE SumTo(_, _)
(* Series.sum() over the first k entries. *)
SumTo(vals, k) == IF k = 0 THEN 0 ELSE vals[k] + SumTo(vals, k - 1)

(* Lines 561-567: the ranked emoji as a list. *)
TopEmojis(rows, n) ==
    LET vc == nlargest(value_counts(Vals(rows, "Emoji")), n)
    IN  [p \in 1..Len(vc) |-> vc[p].value]

(* Mutant of MatDf: the comparison inverted. *)
MatDfInverted(rows, top) ==
    [i \in 1..Len(rows) |-> [e \in top |-> IF rows[i]["Emoji"] # e THEN 1 ELSE 0]]

(* Lines 571-573: one 0/1 column per ranked emoji, one row per tweet. *)
MatDf(rows, top) ==
    [i \in 1..Len(rows) |-> [e \in top |-> IF rows[i]["Emoji"] = e THEN 1 ELSE 0]]

(* Line 576, DataFrame.corr(): Pearson's r of two columns is cov over the *)
(* root of var_a * var_b, each kept here times n * n; r is NaN when a     *)
(* variance is 0, and has the sign of cov otherwise.                      *)
Corr(mat, a, b) ==
    LET n  == Len(mat)
        sa == SumTo([i \in 1..n |-> mat[i][a]], n)
        sb == SumTo([i \in 1..n |-> mat[i][b]], n)
        sab == SumTo([i \in 1..n |-> mat[i][a] * mat[i][b]], n)
        saa == SumTo([i \in 1..n |-> mat[i][a] * mat[i][a]], n)
        sbb == SumTo([i \in 1..n |-> mat[i][b] * mat[i][b]], n)
    IN  [cov |-> n * sab - sa * sb,
         var_a |-> n * saa - sa * sa,
         var_b |-> n * sbb - sb * sb]

CorrMat(mat, top) == [a \in top |-> [b \in top |-> Corr(mat, a, b)]]

(* Lines 558-576 *)
CoOccurrence(rows, n) ==
    LET top_emojis == TopEmojis(rows, n)
        top == {top_emojis[p] : p \in 1..Len(top_emojis)}
        mat_df == MatDf(rows, top)
    IN  [top_emojis |-> top_emojis, mat_df |-> mat_df, corr_mat |-> CorrMat(mat_df, top)]

NoCoOccurrence == [top_emojis |-> <<>>, mat_df |-> <<>>, corr_mat |-> <<>>]

----------------------------------------------------------------------------
(* The script run (lines 106-706) *)

Welcome == [screen |-> "welcome"]
Blank == [screen |-> "blank"]

Dashboard(frame, festival, sentiment, n) ==
    LET cols == frame.cols
        df_filt == ApplyFilters(frame, festival, sentiment)
        has(ch) == Requires[ch] \subseteq cols
        gauge_on == GaugeGuard(cols, df_filt)
        sk == IF has("sankey") THEN Sankey(df_filt, n) ELSE NoSankey
        gg == IF gauge_on THEN Gauge(df_filt) ELSE NoGauge
        status(ch) ==
            CASE ch = "gauge"  -> IF gauge_on THEN "rendered" ELSE "skipped"
              [] ch = "sankey" -> IF has(ch) /\ SankeyDrawn(sk)
                                  THEN "rendered" ELSE "skipped"
              [] OTHER         -> IF has(ch) THEN "rendered" ELSE "skipped"
    IN  [screen             |-> "dashboard",
         festival_options   |-> Options(frame, "Festival"),
         sentiment_options  |-> Options(frame, "Sentiment"),
         df_filt            |-> df_filt,
         total              |-> Len(df_filt),
         unique_emoji_count |-> UniqueEmojiCount(cols, df_filt),
         top_emotion        |-> TopOf(cols, df_filt, "Emotion"),
         top_emoji          |-> TopOf(cols, df_filt, "Emoji"),
         charts             |-> [ch \in Charts |-> status(ch)],
         emoji_counts       |-> IF has("ranking") THEN EmojiCounts(df_filt, n) ELSE <<>>,
         sentiment_split    |-> IF has("sentiment_split") THEN SentimentSplit(df_filt) ELSE {},
         tree_df            |-> IF has("treemap") THEN TreeDf(df_filt) ELSE {},
         daily              |-> IF has("daily") THEN Daily(df_filt) ELSE {},
         scat_df            |-> IF has("scatter") THEN ScatDf(cols, df_filt) ELSE <<>>,
         gauge              |-> gg,
         sankey             |-> sk,
         cooccurrence       |-> IF has("cooccurrence") THEN CoOccurrence(df_filt, n)
                                ELSE NoCoOccurrence,
         fault              |-> gg.fault]

Script(file, frame, festival, sentiment, n) ==
    IF ~file.present THEN Welcome
    ELSE IF IsEmpty(frame) THEN Blank
    ELSE Dashboard(frame, festival, sentiment, n)

----------------------------------------------------------------------------
(* Uploaded files *)

NoFile == [present |-> FALSE, readable |-> FALSE, sheet |-> EmptyFrame]
Sheet(t) == [present |-> TRUE, readable |-> TRUE, sheet |-> t]
CorruptFile == [present |-> TRUE, readable |-> FALSE, sheet |-> EmptyFrame]

SampleDate == FirstClock - 100

(* The cells a column of an uploaded sheet is drawn from. *)
SparseCells ==
    [Tweet_ID   |-> {7, MissingId},
     Author_ID  |-> {"Kiran_T", NaN},
     Date       |-> {Ts(SampleDate), NaT, DateText(SampleDate + 30), BadText},
     Tweet      |-> {"Happy Diwali", NaN},
     Tweet_Text |-> {"Holi hai", NaN},
     Emoji      |-> {"U+1F600", NaN}]

(* Every row over the columns cs, each cell drawn from cells[c]. *)
RECURSIVE RowsOver(_, _)
RowsOver(cs, cells) ==
    IF cs = {} THEN {<<>>}
    ELSE LET c == CHOOSE x \in cs : TRUE
         IN  {(c :> v) @@ r : v \in cells[c], r \in RowsOver(cs \ {c}, cells)}

(* Every table of n rows over the columns cs. *)
TablesOver(cs, cells, n) ==
    IF cs = {} THEN {EmptyFrame}
    ELSE {[cols |-> cs, rows |-> rs] : rs \in [1..n -> RowsOver(cs, cells)]}

(* Sheets of one row over every subset of the columns process_data looks at. *)
OneRowSheets ==
    UNION {TablesOver(cs, SparseCells, 1) : cs \in SUBSET (CanonicalCols \cup {"Tweet"})}

Clocks == {FirstClock, FirstClock + HoursPerDay + 1}

(* The draws process_data makes on table t: none for a column that exists. *)
Draws(t, ids, auths, days, hours) ==
    LET n == NRows(t)
        for(c, S) == IF c \in t.cols THEN {<<>>} ELSE [1..n -> S]
    IN  {[ids |-> a, authors |-> b, days |-> d, hours |-> h] :
            a \in for("Tweet_ID", ids), b \in for("Author_ID", auths),
            d \in for("Date", days), h \in for("Date", hours)}

----------------------------------------------------------------------------
(* Actions *)

Init ==
    /\ uploaded_file = NoFile
    /\ df = EmptyFrame
    /\ load_error = FALSE
    /\ now = 0
    /\ sel_festival = All
    /\ sel_sentiment = All
    /\ top_n = TopNDefault
    /\ view = Welcome

(* The user uploads a file: the script runs with the widgets' defaults. *)
UploadFrom(files, ids, auths, days, hours) ==
    /\ ~uploaded_file.present
    /\ \E file \in files :
       \E clock \in IF "Date" \in file.sheet.cols \/ ~file.readable
                    THEN {0} ELSE Clocks :
       \E rng \in Draws(file.sheet, ids, auths, days, hours) :
          LET res == process_data(file, rng, clock)
          IN  /\ uploaded_file' = file
              /\ df' = res.df
              /\ load_error' = ~res.ok
              /\ now' = clock
              /\ sel_festival' = All
              /\ sel_sentiment' = All
              /\ top_n' = TopNDefault
              /\ view' = Script(file, res.df, All, All, TopNDefault)

(* The user removes the file: the welcome screen. *)
ClearUpload ==
    /\ uploaded_file.present
    /\ uploaded_file' = NoFile
    /\ df' = EmptyFrame
    /\ load_error' = FALSE
    /\ view' = Welcome
    /\ sel_festival' = All
    /\ sel_sentiment' = All
    /\ top_n' = TopNDefault
    /\ now' = 0

(* A control change reruns the script; process_data is cached on the file  *)
(* (st.cache_data), so the canonical table is the one of the upload.       *)
(* Mutant of SelectFestival: process_data without its cache, so that the  *)
(* rerun reads the file again and draws the fallback columns again.      *)
SelectFestivalUncached ==
    /\ view.screen = "dashboard"
    /\ \E k \in 1..Len(view.festival_options) :
       \E rng \in Draws(uploaded_file.sheet, {IdLow, IdHigh - 1}, {1, Len(authors)},
                        {0, WindowDays - 1}, {0, HourHigh - 1}) :
          LET f == view.festival_options[k]
              res == process_data(uploaded_file, rng, now)
          IN  /\ f # sel_festival
              /\ sel_festival' = f
              /\ df' = res.df
              /\ view' = Script(uploaded_file, res.df, f, sel_sentiment, top_n)
    /\ UNCHANGED <<uploaded_file, load_error, now, sel_sentiment, top_n>>

SelectFestival ==
    /\ view.screen = "dashboard"
    /\ \E k \in 1..Len(view.festival_options) :
          LET f == view.festival_options[k]
          IN  /\ f # sel_festival
              /\ sel_festival' = f
              /\ view' = Script(uploaded_file, df, f, sel_sentiment, top_n)
    /\ UNCHANGED <<uploaded_file, df, load_error, now, sel_sentiment, top_n>>

SelectSentiment ==
    /\ view.screen = "dashboard"
    /\ \E k \in 1..Len(view.sentiment_options) :
          LET s == view.sentiment_options[k]
          IN  /\ s # sel_sentiment
              /\ sel_sentiment' = s
              /\ view' = Script(uploaded_file, df, sel_festival, s, top_n)
    /\ UNCHANGED <<uploaded_file, df, load_error, now, sel_festival, top_n>>

(* The slider positions the model moves to. *)
SliderStops == {n \in {TopNMin, TopNDefault} : n \in TopNMin..TopNMax}

SetTopN ==
    /\ view.screen = "dashboard"
    /\ \E n \in SliderStops :
          /\ n # top_n
          /\ top_n' = n
          /\ view' = Script(uploaded_file, df, sel_festival, sel_sentiment, n)
    /\ UNCHANGED <<uploaded_file, df, load_error, now, sel_festival, sel_sentiment>>

----------------------------------------------------------------------------
(* The sheets each specification uploads *)

OptionalCols == {"Festival", "Sentiment", "Emotion"}

Glyphs == {"U+1F389", "U+1F525", "U+1F600", "U+1F602", "U+1F642", "U+1FA94"}

(* Every canonical column filled in; two values for each of the others. *)
DenseCells ==
    [Tweet_ID   |-> {7},
     Author_ID  |-> {"Kiran_T"},
     Date       |-> {Ts(SampleDate)},
     Tweet_Text |-> {"Holi hai"},
     Emoji      |-> {"U+1F602", "U+1F600"},
     Festival   |-> {"Diwali", "Holi"},
     Sentiment  |-> {"Positive", "Negative"},
     Emotion    |-> {"Joy", "Anger"}]

DenseSheets ==
    UNION {TablesOver(CanonicalCols \cup cs, DenseCells, n) :
              cs \in SUBSET OptionalCols, n \in 0..MaxRows}

(* Every column there, with gaps in the columns the charts group by. *)
GappyCells ==
    [Tweet_ID   |-> {7},
     Author_ID  |-> {"Kiran_T"},
     Date       |-> {Ts(SampleDate)},
     Tweet_Text |-> {"Holi hai"},
     Emoji      |-> {"U+1F600", NaN},
     Festival   |-> {"Diwali", NaN},
     Sentiment  |-> {"Positive", NaN},
     Emotion    |-> {"Joy", NaN}]

GappySheets ==
    UNION {TablesOver(CanonicalCols \cup cs, GappyCells, n) :
              cs \in {OptionalCols, OptionalCols \ {"Emotion"}}, n \in 1..MaxRows}

(* The file format the welcome screen asks for: no Tweet_ID, Author_ID or  *)
(* Date, and the text under Tweet.                                         *)
ExpectedFormatSheet ==
    [cols |-> {"Festival", "Sentiment", "Emoji", "Emotion", "Tweet"},
     rows |-> << [Festival |-> "Diwali", Sentiment |-> "Positive", Emoji |-> "U+1FA94",
                  Emotion |-> "Joy", Tweet |-> "Happy Diwali"],
                 [Festival |-> "Holi", Sentiment |-> "Negative", Emoji |-> "U+1F525",
                  Emotion |-> "Anger", Tweet |-> "Too loud"] >>]

(* Sheets without an Emoji column, with the two columns of the filters. *)
NoEmojiSheets ==
    UNION {TablesOver((CanonicalCols \ {"Emoji"}) \cup {"Festival", "Sentiment"},
                      DenseCells, n) : n \in 1..MaxRows}

(* A sheet in which one festival carries the name of the selectbox's own  *)
(* first entry.                                                          *)
FestivalNamedAllSheet ==
    [cols |-> CanonicalCols \cup {"Festival"},
     rows |-> [i \in 1..2 |->
                  [Tweet_ID |-> 7, Author_ID |-> "Kiran_T", Date |-> Ts(SampleDate),
                   Tweet_Text |-> "Holi hai", Emoji |-> "U+1F600",
                   Festival |-> IF i = 1 THEN All ELSE "Diwali"]]]

(* A sheet in which one string is both a festival and a sentiment. *)
SharedLabelSheet ==
    [cols |-> CanonicalCols \cup {"Festival", "Sentiment"},
     rows |-> [i \in 1..2 |->
                  [Tweet_ID |-> 7, Author_ID |-> "Kiran_T", Date |-> Ts(SampleDate),
                   Tweet_Text |-> "Holi hai",
                   Emoji |-> IF i = 1 THEN "U+1F600" ELSE "U+1F602",
                   Festival |-> IF i = 1 THEN "Joy" ELSE "Diwali",
                   Sentiment |-> IF i = 1 THEN "Joy" ELSE "Positive"]]]

(* One more row than the slider's minimum, so that a ranking can be cut. *)
RankRows == TopNMin + 1

GlyphList == sorted(Glyphs)

(* The Emoji columns of the ranking sheets: every order of the six glyphs  *)
(* (six distinct values, more than the slider's minimum), and every column *)
(* whose i-th row holds one of the first i glyphs (repeats and ties).      *)
RankColumns ==
    {f \in [1..RankRows -> Glyphs] :
        \/ \A i, j \in 1..RankRows : i # j => f[i] # f[j]
        \/ \A i \in 1..RankRows : \E k \in 1..i : f[i] = GlyphList[k]}

RankSheets ==
    {[cols |-> CanonicalCols,
      rows |-> [i \in 1..RankRows |->
                   [Tweet_ID |-> 7, Author_ID |-> "Kiran_T", Date |-> Ts(SampleDate),
                    Tweet_Text |-> "Holi hai", Emoji |-> f[i]]]] : f \in RankColumns}

(* Sheets with every canonical column, the Date cells of every kind. *)
DatedCells ==
    [Tweet_ID   |-> {7},
     Author_ID  |-> {"Kiran_T"},
     Date       |-> {Ts(SampleDate), NaT, DateText(SampleDate + 30), BadText},
     Tweet_Text |-> {"Holi hai"},
     Emoji      |-> {"U+1F600", NaN}]

DatedSheets == UNION {TablesOver(CanonicalCols, DatedCells, n) : n \in 0..MaxRows}

(* One row without a Date, for every draw of the day and the hour. *)
UndatedSheets == TablesOver(CanonicalCols \ {"Date"}, DenseCells, 1)

----------------------------------------------------------------------------
(* Specifications *)

UploadSession ==
    UploadFrom({Sheet(t) : t \in DenseSheets \cup GappySheets \cup NoEmojiSheets
                                \cup {ExpectedFormatSheet, FestivalNamedAllSheet,
                                      SharedLabelSheet}}
                   \cup {CorruptFile},
               {IdLow, IdHigh - 1}, {1, Len(authors)},
               {0, WindowDays - 1}, {0, HourHigh - 1})

Next == UploadSession \/ ClearUpload \/ SelectFestival \/ SelectSentiment \/ SetTopN

Spec == Init /\ [][Next]_vars

UploadSparse ==
    UploadFrom({Sheet(t) : t \in OneRowSheets \cup DatedSheets} \cup {CorruptFile},
               {IdLow, IdHigh - 1}, DOMAIN authors,
               {0, WindowDays - 1}, {0, HourHigh - 1})

UploadUndated ==
    UploadFrom({Sheet(t) : t \in UndatedSheets},
               {IdLow}, {1}, RandInt(0, WindowDays), RandInt(0, HourHigh))

NextNormalize == UploadSparse \/ UploadUndated \/ ClearUpload

SpecNormalize == Init /\ [][NextNormalize]_vars

UploadRank == UploadFrom({Sheet(t) : t \in RankSheets}, {IdLow}, {1}, {0}, {0})

NextRank == UploadRank \/ ClearUpload \/ SetTopN

SpecRank == Init /\ [][NextRank]_vars

----------------------------------------------------------------------------
(* Properties of process_data, checked under SpecNormalize *)

Loaded == uploaded_file.present /\ ~load_error

(* C1: every row of the table process_data returns for a file it reads    *)
(* has a value other than NaN / NaT in each of Tweet_ID, Author_ID, Date,  *)
(* Tweet_Text and Emoji, also when the sheet carries the column with       *)
(* missing cells.  The code fills a column only when it is absent, so a    *)
(* missing cell of a column the sheet has stays missing.                   *)
C1_CanonicalNonNull ==
    Loaded =>
        \A i \in 1..NRows(df) : \A c \in CanonicalCols : ~IsNull(c, df.rows[i][c])

HasBadDate(t) ==
    "Date" \in t.cols /\ \E i \in 1..NRows(t) : t.rows[i]["Date"] = BadText

(* C5: a sheet whose Date column holds a value that does not parse makes   *)
(* process_data report the error and return the empty table, and the       *)
(* script then shows nothing of the dashboard: no filter, no derivation.   *)
C5_BadDateHaltsDashboard ==
    (uploaded_file.present /\ uploaded_file.readable /\ HasBadDate(uploaded_file.sheet))
        => /\ load_error
           /\ df = EmptyFrame
           /\ view = Blank

C5_Witness ==
    /\ uploaded_file.present
    /\ NRows(uploaded_file.sheet) = 2
    /\ uploaded_file.sheet.rows[1]["Date"] = Ts(SampleDate)
    /\ uploaded_file.sheet.rows[2]["Date"] = BadText
    /\ load_error
    /\ view = Blank

(* Draws and a clock for a second run of the column-fill steps. *)
SecondDraws(n) ==
    {[ids |-> [i \in 1..n |-> x], authors |-> [i \in 1..n |-> 1],
      days |-> [i \in 1..n |-> 1], hours |-> [i \in 1..n |-> 1]] :
        x \in {IdLow, IdHigh - 1}}

Refilled(t) ==
    \A rng \in SecondDraws(NRows(t)) : \A clock \in Clocks :
        FillColumns(t, rng, clock).df = t

C9_SynthesizedDateWindow ==
    (Loaded /\ "Date" \notin uploaded_file.sheet.cols) =>
        \A i \in 1..NRows(df) :
            LET ts == df.rows[i]["Date"]
            IN  /\ ts.kind = "ts"
                /\ \E d \in 0..29 : \E h \in 0..22 :
                       ts.v = (now - 30 * 24) + d * 24 + h
                /\ ts.v >= now - 30 * 24
                /\ ts.v < now

C9_Witness ==
    /\ Loaded
    /\ "Date" \notin uploaded_file.sheet.cols
    /\ NRows(df) = 1
    /\ df.rows[1]["Date"] = Ts(now - 2)

----------------------------------------------------------------------------
(* Properties of the script run *)

OnDashboard == view.screen = "dashboard"

EmojiOf(rows) == Vals(rows, "Emoji")

RECURSIVE SumCounts(_)
SumCounts(ec) == IF ec = <<>> THEN 0 ELSE Head(ec).count + SumCounts(Tail(ec))

Smaller(a, b) == IF a < b THEN a ELSE b

(* C10: emoji_ranking has at most min(top_n, number of distinct emoji)     *)
(* entries, lists each emoji once with its exact count, in descending      *)
(* count order, and its counts sum to at most total_count.                 *)
C10_EmojiRanking ==
    (OnDashboard /\ "Emoji" \in df.cols) =>
        LET ec == view.emoji_counts
            col == EmojiOf(view.df_filt)
        IN  /\ Len(ec) <= Smaller(top_n, Cardinality(Distinct(col)))
            /\ \A p, q \in 1..Len(ec) : p # q => ec[p].value # ec[q].value
            /\ \A p \in 1..Len(ec) :
                   /\ ec[p].value # NaN
                   /\ ec[p].count =
                          Cardinality({i \in 1..Len(col) : col[i] = ec[p].value})
            /\ \A p \in 1..(Len(ec) - 1) : ec[p].count >= ec[p + 1].count
            /\ SumCounts(ec) <= view.total

C10_Witness ==
    /\ OnDashboard
    /\ top_n = TopNMin
    /\ Cardinality(Distinct(EmojiOf(view.df_filt))) = TopNMin + 1
    /\ Len(view.emoji_counts) = TopNMin
    /\ SumCounts(view.emoji_counts) < view.total

MostFrequent(vals) ==
    {v \in Distinct(vals) : \A w \in Distinct(vals) : CountOf(vals, w) <= CountOf(vals, v)}

FirstSeenOf(vals, S) == CHOOSE v \in S : \A w \in S : FirstAt(vals, v) <= FirstAt(vals, w)

(* The KPI columns that hold a value in the filtered table. *)
KpiColumns ==
    {c \in {"Emoji", "Emotion"} \cap df.cols : Distinct(Vals(view.df_filt, c)) # {}}

Kpi(c) == IF c = "Emoji" THEN view.top_emoji ELSE view.top_emotion

PositiveRows(rows) ==
    Cardinality({i \in 1..Len(rows) : rows[i]["Sentiment"] = "Positive"})

Needed(ch) ==
    CASE ch = "ranking"         -> {"Emoji"}
      [] ch = "sentiment_split" -> {"Sentiment"}
      [] ch = "treemap"         -> {"Emotion", "Emoji"}
      [] ch = "daily"           -> {"Date"}
      [] ch = "bars"            -> {"Emoji", "Sentiment"}
      [] ch = "violin"          -> {"Tweet_Text", "Sentiment"}
      [] ch = "scatter"         -> {"Date", "Emoji"}
      [] ch = "radar"           -> {"Tweet_Text", "Sentiment"}
      [] ch = "area"            -> {"Date", "Sentiment"}
      [] ch = "gauge"           -> {"Sentiment"}
      [] ch = "sankey"          -> {"Festival", "Sentiment", "Emoji"}
      [] ch = "cooccurrence"    -> {"Emoji"}
      [] ch = "bubble"          -> {"Date", "Emoji"}
      [] ch = "calendar"        -> {"Date"}

ByColumns(ch) == IF Needed(ch) \subseteq df.cols THEN "rendered" ELSE "skipped"

(* C4: on a filtered table without rows total_count is 0, every  *)
(* chart takes its skip path, and the run ends without a fault.            *)
C4_EmptyTableSkipsAll ==
    (OnDashboard /\ view.df_filt = <<>>) =>
        /\ view.total = 0
        /\ \A ch \in Charts : view.charts[ch] = "skipped"
        /\ ~view.fault

Passes(r) ==
    /\ sel_festival = All \/ "Festival" \notin df.cols \/ r["Festival"] = sel_festival
    /\ sel_sentiment = All \/ "Sentiment" \notin df.cols \/ r["Sentiment"] = sel_sentiment

Kept == {i \in 1..NRows(df) : Passes(df.rows[i])}

KthKept(k) == CHOOSE i \in Kept : Cardinality({j \in Kept : j < i}) = k - 1

Labels == {All, "Diwali", "Holi", "Positive", "Negative"}

FilteredAsSelected ==
    /\ Len(view.df_filt) = Cardinality(Kept)
    /\ \A k \in 1..Len(view.df_filt) : view.df_filt[k] = df.rows[KthKept(k)]
    /\ "Festival" \notin df.cols =>
           \A f \in Labels : ApplyFilters(df, f, All) = df.rows
    /\ "Sentiment" \notin df.cols =>
           \A x \in Labels : ApplyFilters(df, All, x) = df.rows

(* A festival of the sheet is selected and the sentiment is "All". *)
FestivalSelected ==
    /\ sel_sentiment = All
    /\ "Festival" \in df.cols
    /\ sel_festival \in Distinct(Vals(df.rows, "Festival"))

SheetRowsOfFestival ==
    Cardinality({i \in 1..NRows(uploaded_file.sheet) :
                    uploaded_file.sheet.rows[i]["Festival"] = sel_festival})

(* C6 as stated: the filtered table is the canonical rows, in their order, *)
(* whose Festival and Sentiment equal the selections other than "All"; a   *)
(* filter on a column the table lacks excludes no row; with sentiment      *)
(* "All" and any festival F of the sheet selected, total_count is the      *)
(* number of sheet rows whose Festival is F.                               *)
C6_FilteredRowsAnyFestival ==
    OnDashboard =>
        /\ FilteredAsSelected
        /\ FestivalSelected => view.total = SheetRowsOfFestival

(* C6 as amended: the same, for a festival F whose name is not "All".      *)
C6_FilteredRows ==
    OnDashboard =>
        /\ FilteredAsSelected
        /\ (FestivalSelected /\ sel_festival # All) => view.total = SheetRowsOfFestival

C6_Witness ==
    /\ OnDashboard
    /\ sel_festival = "Holi"
    /\ sel_sentiment = All
    /\ NRows(df) = 2
    /\ df.rows[1]["Festival"] = "Diwali"
    /\ view.total = 1
    /\ view.df_filt = <<df.rows[2]>>

SomeOptionalAbsent == OptionalCols \ df.cols # {}

Restrict(rows, cs) == [i \in 1..Len(rows) |-> [c \in cs |-> rows[i][c]]]

(* What a computed chart shows is what it shows on its own columns alone. *)
SameOnOwnColumns ==
    LET rows == view.df_filt
        on(ch) == Restrict(rows, Needed(ch) \cap df.cols)
    IN  /\ view.emoji_counts = EmojiCounts(on("ranking"), top_n)
        /\ view.daily = Daily(on("daily"))
        /\ "Sentiment" \in df.cols => view.sentiment_split = SentimentSplit(on("sentiment_split"))
        /\ "Emotion" \in df.cols => view.tree_df = TreeDf(on("treemap"))
        /\ "Sentiment" \notin df.cols => view.scat_df = ScatDf({"Date", "Emoji"}, on("scatter"))
        /\ "Festival" \in df.cols /\ "Sentiment" \in df.cols =>
               view.sankey = Sankey(on("sankey"), top_n)

(* C7 as stated: with Festival, Sentiment or Emotion absent, the charts    *)
(* omitted are exactly those that need an absent column, every other chart *)
(* is computed as if the absent column did not matter, and the run is not  *)
(* aborted.                                                                *)
C7_OnlyMissingColumnsSkip ==
    (OnDashboard /\ SomeOptionalAbsent) =>
        /\ \A ch \in Charts : view.charts[ch] = ByColumns(ch)
        /\ SameOnOwnColumns
        /\ ~view.fault

HasLink(rows) ==
    \E i \in 1..Len(rows) :
        /\ rows[i]["Sentiment"] # NaN
        /\ \E p \in 1..Len(view.emoji_counts) : view.emoji_counts[p].value = rows[i]["Emoji"]

(* C7 as amended: the same, except that the gauge is also omitted when the *)
(* filtered table has no row and the Sankey is also omitted when it has no *)
(* link.                                                                   *)
C7_MissingColumnsOrNoDataSkip ==
    (OnDashboard /\ SomeOptionalAbsent) =>
        /\ \A ch \in Charts \ {"gauge", "sankey"} : view.charts[ch] = ByColumns(ch)
        /\ view.charts["gauge"] =
               IF view.total > 0 THEN ByColumns("gauge") ELSE "skipped"
        /\ view.charts["sankey"] =
               IF "Festival" \in df.cols /\ "Sentiment" \in df.cols /\ HasLink(view.df_filt)
               THEN "rendered" ELSE "skipped"
        /\ "Emotion" \notin df.cols => view.top_emotion = NotAvailable
        /\ SameOnOwnColumns
        /\ ~view.fault

C7_Witness ==
    /\ OnDashboard
    /\ df.cols \cap OptionalCols = {"Festival", "Sentiment"}
    /\ view.total = 2
    /\ view.charts["treemap"] = "skipped"
    /\ view.top_emotion = NotAvailable
    /\ view.charts["sankey"] = "rendered"
    /\ view.charts["gauge"] = "rendered"
    /\ view.charts["ranking"] = "rendered"

(* C11: a sheet without an Emoji column gives a canonical table whose      *)
(* Emoji column is the placeholder glyph in every row, so that on every    *)
(* filtered table with a row unique_emoji_count is 1 and top_emoji is the  *)
(* placeholder.                                                            *)
C11_PlaceholderEmoji ==
    (Loaded /\ "Emoji" \notin uploaded_file.sheet.cols) =>
        /\ "Emoji" \in df.cols
        /\ \A i \in 1..NRows(df) : df.rows[i]["Emoji"] = EmojiPlaceholder
        /\ (OnDashboard /\ view.total > 0) =>
               /\ view.unique_emoji_count = 1
               /\ view.top_emoji = EmojiPlaceholder

C11_Witness ==
    /\ OnDashboard
    /\ "Emoji" \notin uploaded_file.sheet.cols
    /\ NRows(df) = 2
    /\ sel_festival = "Diwali"
    /\ sel_sentiment = "Positive"
    /\ view.total = 1
    /\ view.unique_emoji_count = 1
    /\ view.top_emoji = EmojiPlaceholder

(* C12: while one file stays uploaded, no change of the festival, the      *)
(* sentiment or top_n changes the canonical table: it remains the table of *)
(* the file's first normalization, fallback columns included, and the      *)
(* filtered table of the new page is cut from it.                          *)
C12_CanonicalTableKept ==
    [][(uploaded_file.present /\ uploaded_file' = uploaded_file) =>
           /\ df' = df
           /\ load_error' = load_error
           /\ now' = now
           /\ view'.screen = "dashboard" =>
                  view'.df_filt = ApplyFilters(df, sel_festival', sel_sentiment')]_vars

C12_Witness ==
    /\ OnDashboard
    /\ uploaded_file.sheet = ExpectedFormatSheet
    /\ sel_festival = "Holi"
    /\ sel_sentiment = "Negative"
    /\ top_n = TopNMin
    /\ df.rows[1]["Tweet_ID"] = IdLow
    /\ df.rows[2]["Tweet_ID"] = IdHigh - 1
    /\ df.rows[2]["Date"] = Ts(now - 2)
    /\ view.df_filt = <<df.rows[2]>>

(* The rows the Sankey is restricted to: those whose emoji is ranked. *)
RestrictedRows ==
    SelectSeq(view.df_filt,
              LAMBDA r : \E p \in 1..Len(view.emoji_counts) :
                             view.emoji_counts[p].value = r["Emoji"])

SankeyLabelsOf(c) == Distinct(Vals(RestrictedRows, c))

PairCount(c1, v1, c2, v2) ==
    Cardinality({i \in 1..Len(RestrictedRows) :
                    RestrictedRows[i][c1] = v1 /\ RestrictedRows[i][c2] = v2})

(* C13: when the table has Festival, Sentiment and Emoji, the Sankey node   *)
(* list holds each festival, sentiment and ranked-emoji label of the       *)
(* restricted rows, and none twice; every pair of labels that shares a row *)
(* has one edge, with its row count, from the node of the first label to   *)
(* the node of the second; and without an edge nothing is produced.        *)
C13_SankeyNodesAndEdges ==
    (OnDashboard /\ {"Festival", "Sentiment", "Emoji"} \subseteq df.cols) =>
        LET sk == view.sankey
            nodes == DOMAIN sk.labels
            links == sk.fs_links \cup sk.se_links
        IN  IF HasLink(view.df_filt)
            THEN /\ view.charts["sankey"] = "rendered"
                 /\ \A i, j \in nodes : i # j => sk.labels[i] # sk.labels[j]
                 /\ {sk.labels[i] : i \in nodes} =
                        SankeyLabelsOf("Festival") \cup SankeyLabelsOf("Sentiment")
                            \cup SankeyLabelsOf("Emoji")
                 /\ \A l \in links :
                        /\ l.source \in nodes /\ sk.labels[l.source] = l.from
                        /\ l.target \in nodes /\ sk.labels[l.target] = l.to
                 /\ \A f \in SankeyLabelsOf("Festival"), x \in SankeyLabelsOf("Sentiment") :
                        PairCount("Festival", f, "Sentiment", x) > 0 =>
                            \E l \in sk.fs_links :
                                /\ l.from = f /\ l.to = x
                                /\ l.value = PairCount("Festival", f, "Sentiment", x)
                 /\ \A x \in SankeyLabelsOf("Sentiment"), e \in SankeyLabelsOf("Emoji") :
                        PairCount("Sentiment", x, "Emoji", e) > 0 =>
                            \E l \in sk.se_links :
                                /\ l.from = x /\ l.to = e
                                /\ l.value = PairCount("Sentiment", x, "Emoji", e)
            ELSE /\ view.charts["sankey"] = "skipped"
                 /\ links = {}

Ranked == {view.emoji_counts[p].value : p \in 1..Len(view.emoji_counts)}

OnesOfRow(i) == {e \in Ranked : view.cooccurrence.mat_df[i][e] = 1}

OnesOfColumn(e) ==
    {i \in 1..Len(view.df_filt) : view.cooccurrence.mat_df[i][e] = 1}

(* C14: the indicator table has one row per filtered row and one 0/1       *)
(* column per ranked emoji; a row holds at most one 1, and exactly one iff *)
(* its emoji is ranked; for distinct ranked emoji a and b the product of   *)
(* the two columns is 0 in every row, n * sum(a*b) - sum(a) * sum(b) is    *)
(* below 0 and both variances are above 0, so that their correlation is    *)
(* a number below 0.                                                       *)
C14_DistinctEmojiCorrelateNegatively ==
    OnDashboard =>
        LET co == view.cooccurrence
            n == Len(view.df_filt)
        IN  /\ Len(co.mat_df) = n
            /\ \A i \in 1..n :
                   /\ DOMAIN co.mat_df[i] = Ranked
                   /\ \A e \in Ranked : co.mat_df[i][e] \in {0, 1}
                   /\ Cardinality(OnesOfRow(i)) <= 1
                   /\ Cardinality(OnesOfRow(i)) = 1 <=> view.df_filt[i]["Emoji"] \in Ranked
            /\ \A a, b \in Ranked :
                   a # b =>
                       /\ \A i \in 1..n : co.mat_df[i][a] * co.mat_df[i][b] = 0
                       /\ co.corr_mat[a][b].cov =
                              0 - Cardinality(OnesOfColumn(a)) * Cardinality(OnesOfColumn(b))
                       /\ co.corr_mat[a][b].cov < 0
                       /\ co.corr_mat[a][b].var_a > 0
                       /\ co.corr_mat[a][b].var_b > 0

C14_Witness ==
    /\ OnDashboard
    /\ top_n = TopNMin
    /\ Len(view.df_filt) = RankRows
    /\ Cardinality(Ranked) = TopNMin
    /\ \E i \in 1..Len(view.df_filt) : OnesOfRow(i) = {}
    /\ \E i \in 1..Len(view.df_filt) : Cardinality(OnesOfRow(i)) = 1
    /\ \E a, b \in Ranked : a # b /\ view.cooccurrence.corr_mat[a][b].cov = -1

(* The values a selector may show for a column: "All" and what the        *)
(* canonical table holds there, nulls left out.                           *)
Offered(c) ==
    {All} \cup (IF c \in df.cols
                THEN {df.rows[i][c] : i \in 1..NRows(df)} \ {NaN}
                ELSE {})

SharesARow(f, x) ==
    \E i \in 1..NRows(df) : df.rows[i]["Festival"] = f /\ df.rows[i]["Sentiment"] = x

(* C15: each selector offers "All" and the non-null values of its column   *)
(* in the canonical table, and the selection is one of them; with either   *)
(* selector at "All" the filtered table has a row; the filtered table is   *)
(* empty only with a festival and a sentiment selected that share no row.  *)
C15_EmptyOnlyByDisjointSelection ==
    OnDashboard =>
        /\ {view.festival_options[k] : k \in 1..Len(view.festival_options)}
               = Offered("Festival")
        /\ {view.sentiment_options[k] : k \in 1..Len(view.sentiment_options)}
               = Offered("Sentiment")
        /\ sel_festival \in Offered("Festival")
        /\ sel_sentiment \in Offered("Sentiment")
        /\ (sel_festival = All \/ sel_sentiment = All) => view.total > 0
        /\ view.total = 0 =>
               /\ sel_festival # All
               /\ sel_sentiment # All
               /\ ~SharesARow(sel_festival, sel_sentiment)

C15_Witness ==
    /\ OnDashboard
    /\ sel_festival = "Holi"
    /\ sel_sentiment = "Positive"
    /\ ~SharesARow("Holi", "Positive")
    /\ view.total = 0
    /\ view.df_filt = <<>>

====
